---- MODULE Spec2Model ----
(***************************************************************************)
(* Model of the nonneg-float crate (src/src/lib.rs): the wrapper           *)
(* NonNegative<T: Float>, its constructors zero / try_new / new, get,      *)
(* Default, the derived Copy / PartialEq / PartialOrd, the nonneg! macro   *)
(* and, behind the serde feature, the derived Deserialize.                 *)
(*                                                                         *)
(* A float is a record [ty, cls, neg, mag]: its representation (f32 or     *)
(* f64), its class (finite, infinite, NaN), its sign bit and, for a finite *)
(* value, its magnitude in units of the smallest step of the model.  The   *)
(* sign bit is kept for every class, so that negative zero and positive    *)
(* zero are two values that compare equal, as in IEEE 754.                 *)
(***************************************************************************)
EXTENDS Integers, Sequences, FiniteSets, TLC

VARIABLES heap, last

vars == <<heap, last>>

(* Largest finite magnitude of the model's floats. *)
MaxMag == 1

(* Largest number of instances the program keeps bound at once. *)
MaxInst == 2

FloatTypes == {"f32", "f64"}

Floats ==
  [ty : FloatTypes, cls : {"fin"}, neg : BOOLEAN, mag : 0..MaxMag]
    \cup [ty : FloatTypes, cls : {"inf", "nan"}, neg : BOOLEAN, mag : {0}]

FloatsOf(t) == {x \in Floats : x.ty = t}

(***************************************************************************)
(* Floating-point primitives used by the crate through num_traits::Float.  *)
(***************************************************************************)

(* T::zero(): positive zero of the representation. *)
T_zero(t) == [ty |-> t, cls |-> "fin", neg |-> FALSE, mag |-> 0]

is_nan(x) == x.cls = "nan"

(* Float::is_finite: neither infinite nor NaN. *)
is_finite(x) == x.cls = "fin"

(* Position of a non-NaN float on the extended real line; both zeros map   *)
(* to 0 and the infinities lie beyond every finite magnitude.              *)
Key(x) ==
  LET m == IF x.cls = "inf" THEN MaxMag + 1 ELSE x.mag
  IN  IF x.neg THEN 0 - m ELSE m

(* The comparison operators of a float: every comparison with NaN is false. *)
FLt(a, b) == ~is_nan(a) /\ ~is_nan(b) /\ Key(a) < Key(b)

FLe(a, b) == ~is_nan(a) /\ ~is_nan(b) /\ Key(a) <= Key(b)

FGt(a, b) == FLt(b, a)

FGe(a, b) == FLe(b, a)

FEq(a, b) == ~is_nan(a) /\ ~is_nan(b) /\ Key(a) = Key(b)

(* PartialOrd::partial_cmp of a float, decided from (a <= b, a >= b). *)
float_partial_cmp(a, b) ==
  CASE FLe(a, b) /\ FGe(a, b)   -> "Equal"
    [] FLe(a, b) /\ ~FGe(a, b)  -> "Less"
    [] ~FLe(a, b) /\ FGe(a, b)  -> "Greater"
    [] OTHER                    -> "None"

(***************************************************************************)
(* NonNegativeError and Result.                                            *)
(***************************************************************************)

InvalidValue == "InvalidValue"

(* impl Display for NonNegativeError *)
ErrorDisplay(e) == "Value must be non-negative and finite"

(* derive(Debug) on NonNegativeError: the variant's name. *)
ErrorDebug(e) == e

Ok(inst) == [tag |-> "Ok", inst |-> inst]

Err(e) == [tag |-> "Err", err |-> e]

(* A call that returned an instance, and a call that panicked. *)
Ret(inst) == [tag |-> "Ret", inst |-> inst]

Panic(msg) == [tag |-> "Panic", msg |-> msg]

(***************************************************************************)
(* NonNegative<T>: the tuple struct with its single field.                 *)
(***************************************************************************)

NonNegative(value) == [val |-> value]

(* zero with T::one() in place of T::zero(). *)
zero_one(t) == NonNegative([T_zero(t) EXCEPT !.mag = 1])

zero(t) == NonNegative(T_zero(t))

(* Variants of try_new: the sign bit cleared on the way in; > in place of  *)
(* >=; the is_finite test dropped; the test written as not (value < 0).    *)
try_new_abs(value) ==
  IF FGe(value, T_zero(value.ty)) /\ is_finite(value)
    THEN Ok(NonNegative([value EXCEPT !.neg = FALSE]))
    ELSE Err(InvalidValue)

try_new_strict(value) ==
  IF FGt(value, T_zero(value.ty)) /\ is_finite(value)
    THEN Ok(NonNegative(value))
    ELSE Err(InvalidValue)

try_new_nofinite(value) ==
  IF FGe(value, T_zero(value.ty))
    THEN Ok(NonNegative(value))
    ELSE Err(InvalidValue)

try_new_notlt(value) ==
  IF ~FLt(value, T_zero(value.ty))
    THEN Ok(NonNegative(value))
    ELSE Err(InvalidValue)

try_new(value) ==
  IF FGe(value, T_zero(value.ty)) /\ is_finite(value)
    THEN Ok(NonNegative(value))
    ELSE Err(InvalidValue)

(* Result::expect: the Ok value, or a panic whose message is msg, a colon *)
(* and a space, and the Debug rendering of the error.                      *)
expect(r, msg) ==
  IF r.tag = "Ok"
    THEN Ret(r.inst)
    ELSE Panic(msg \o ": " \o ErrorDebug(r.err))

(* Variants of new: no validation; zero in place of the panic; unwrap in   *)
(* place of expect (the message of the standard library, its backquotes    *)
(* left out).                                                              *)
new_unchecked(value) == Ret(NonNegative(value))

new_or_zero(value) ==
  LET r == try_new(value)
  IN  IF r.tag = "Ok" THEN Ret(r.inst) ELSE Ret(zero(value.ty))

new_unwrap(value) ==
  expect(try_new(value), "called Result::unwrap() on an Err value")

new(value) == expect(try_new(value), "Value must be non-negative and finite")

get(self) == self.val

(* impl Default *)
default(t) == zero(t)

(* derive(Copy, Clone) *)
clone(self) == self

(* derive(PartialEq): the fields compared with ==. *)
eq(a, b) == FEq(a.val, b.val)

(* derive(PartialOrd): the fields compared with partial_cmp. *)
partial_cmp(a, b) == float_partial_cmp(a.val, b.val)

lt(a, b) == partial_cmp(a, b) = "Less"

gt(a, b) == partial_cmp(a, b) = "Greater"

(* nonneg!($t:ty) *)
nonneg_ty(t) == Ret(zero(t))

(* Variant of the value arm that panics inline on a negative value. *)
nonneg_val_panicking(value) ==
  IF FLt(value, T_zero(value.ty))
    THEN Panic("Value must be non-negative")
    ELSE Ok(NonNegative(value))

(* nonneg!($val:expr) *)
nonneg_val(value) == try_new(value)

(* nonneg!($t:ty, $val:expr) *)
nonneg_ty_val(t, value) == try_new(value)

(* derive(Deserialize) on the one-field tuple struct: the decoded number   *)
(* is wrapped as it is.                                                    *)
deserialize(value) == Ok(NonNegative(value))

(***************************************************************************)
(* The program: heap is the sequence of instances the caller has bound, in *)
(* the order of their creation; last is the most recent call, with its     *)
(* arguments and what it returned.  A call that returns an instance either *)
(* binds it (it is appended to heap) or leaves it a temporary, which lives *)
(* in last until the next call.                                            *)
(***************************************************************************)

Slots == 1..Len(heap)

NoCall == [op |-> "none", out |-> [tag |-> "None"]]

Init ==
  /\ heap = <<>>
  /\ last = NoCall

(* The instance a call returned is bound by the caller, or dropped. *)
Bind(out) ==
  \/ /\ out.tag \in {"Ok", "Ret"}
     /\ Len(heap) < MaxInst
     /\ heap' = Append(heap, out.inst)
  \/ heap' = heap

CallZero ==
  \E t \in FloatTypes :
    LET out == Ret(zero(t))
    IN  /\ last' = [op |-> "zero", ty |-> t, out |-> out]
        /\ Bind(out)

CallTryNew ==
  \E value \in Floats :
    LET out == try_new(value)
    IN  /\ last' = [op |-> "try_new", arg |-> value, out |-> out]
        /\ Bind(out)

CallNew ==
  \E value \in Floats :
    LET out == new(value)
    IN  /\ last' = [op |-> "new", arg |-> value, out |-> out]
        /\ Bind(out)

CallGet ==
  \E i \in Slots :
    /\ last' = [op |-> "get", self |-> i,
                out |-> [tag |-> "Val", val |-> get(heap[i])]]
    /\ heap' = heap

CallDefault ==
  \E t \in FloatTypes :
    LET out == Ret(default(t))
    IN  /\ last' = [op |-> "default", ty |-> t, out |-> out]
        /\ Bind(out)

CallClone ==
  \E i \in Slots :
    LET out == Ret(clone(heap[i]))
    IN  /\ last' = [op |-> "clone", self |-> i, out |-> out]
        /\ Bind(out)

CallEq ==
  \E i \in Slots, j \in Slots :
    /\ heap[i].val.ty = heap[j].val.ty
    /\ last' = [op |-> "eq", self |-> i, other |-> j,
                out |-> [tag |-> "Bool", val |-> eq(heap[i], heap[j])]]
    /\ heap' = heap

CallPartialCmp ==
  \E i \in Slots, j \in Slots :
    /\ heap[i].val.ty = heap[j].val.ty
    /\ last' = [op |-> "partial_cmp", self |-> i, other |-> j,
                out |-> [tag |-> "Ordering",
                         val |-> partial_cmp(heap[i], heap[j])]]
    /\ heap' = heap

MacroTy ==
  \E t \in FloatTypes :
    LET out == nonneg_ty(t)
    IN  /\ last' = [op |-> "nonneg_ty", ty |-> t, out |-> out]
        /\ Bind(out)

MacroVal ==
  \E value \in Floats :
    LET out == nonneg_val(value)
    IN  /\ last' = [op |-> "nonneg_val", arg |-> value, out |-> out]
        /\ Bind(out)

MacroTyVal ==
  \E t \in FloatTypes :
    \E value \in FloatsOf(t) :
      LET out == nonneg_ty_val(t, value)
      IN  /\ last' = [op |-> "nonneg_ty_val", ty |-> t, arg |-> value,
                      out |-> out]
          /\ Bind(out)

(* With the serde feature: a number decoded from the input. *)
CallDeserialize ==
  \E value \in Floats :
    LET out == deserialize(value)
    IN  /\ last' = [op |-> "deserialize", arg |-> value, out |-> out]
        /\ Bind(out)

Next ==
  \/ CallZero
  \/ CallTryNew
  \/ CallNew
  \/ CallGet
  \/ CallDefault
  \/ CallClone
  \/ CallEq
  \/ CallPartialCmp
  \/ MacroTy
  \/ MacroVal
  \/ MacroTyVal

Spec == Init /\ [][Next]_vars

NextSerde ==
  \/ Next
  \/ CallDeserialize

SpecSerde == Init /\ [][NextSerde]_vars

(***************************************************************************)
(* Properties.  The classification of a float below reads the record       *)
(* directly and uses none of the comparison operators above.               *)
(***************************************************************************)

(* x >= 0 and x finite: a finite value that is a zero of either sign or    *)
(* has its sign bit clear.                                                 *)
IsNonNegFinite(x) == x.cls = "fin" /\ (x.neg => x.mag = 0)

(* x < 0: a nonzero finite value or an infinity with its sign bit set. *)
IsNegative(x) ==
  /\ x.neg
  /\ \/ x.cls = "inf"
     \/ x.cls = "fin" /\ x.mag > 0

IsRejected(x) == IsNegative(x) \/ x.cls = "nan" \/ x.cls = "inf"

IsZero(x) == x.cls = "fin" /\ x.mag = 0

ReturnsInstance(out) == out.tag \in {"Ok", "Ret"}

(* C1: for every finite x >= 0 (both zeros included) try_new(x) is Ok and  *)
(* get() of the instance is exactly x, sign bit and magnitude unchanged.   *)
C1_ValidAccepted ==
  (last.op = "try_new" /\ IsNonNegFinite(last.arg)) =>
    /\ last.out.tag = "Ok"
    /\ get(last.out.inst) = last.arg

C1_Witness ==
  /\ last.op = "try_new"
  /\ IsNonNegFinite(last.arg)
  /\ last.arg.neg
  /\ last.out.tag = "Ok"
  /\ Len(heap) > 0
  /\ heap[Len(heap)] = last.out.inst

(* C2: for every x that is negative, NaN or an infinity, try_new(x) is     *)
(* Err(InvalidValue), never Ok and never a panic, and the call adds no     *)
(* instance.                                                               *)
C2_InvalidRejected ==
  /\ [](last.op = "try_new" /\ IsRejected(last.arg) =>
          last.out = Err(InvalidValue))
  /\ [][(last'.op = "try_new" /\ IsRejected(last'.arg)) => heap' = heap]_vars

C2_Witness ==
  /\ last.op = "try_new"
  /\ last.arg.cls = "inf"
  /\ ~last.arg.neg
  /\ last.out.tag = "Err"

AllValid ==
  /\ \A i \in Slots : IsNonNegFinite(heap[i].val)
  /\ ReturnsInstance(last.out) => IsNonNegFinite(last.out.inst.val)

Immutable ==
  \A i \in Slots : Len(heap') >= i /\ heap'[i] = heap[i]

(* C3: after any sequence of zero, try_new, new, default, nonneg!, get and *)
(* copies, every instance wraps a value that is >= 0 and finite, and no    *)
(* call changes the value of an instance created earlier.                  *)
C3_InvariantPreserved == []AllValid /\ [][Immutable]_vars

C3_Witness ==
  /\ Len(heap) = MaxInst
  /\ last.op = "clone"
  /\ \E i \in Slots : heap[i].val.mag > 0
  /\ \E i \in Slots : heap[i].val.neg

(* C4: with the serde feature, deserializing runs the validation of        *)
(* try_new, so decoding a negative, NaN or infinite number fails and no    *)
(* instance breaking the invariant exists.                                 *)
C4_DeserializeValidates ==
  /\ last.op = "deserialize" => last.out.tag = try_new(last.arg).tag
  /\ \A i \in Slots : IsNonNegFinite(heap[i].val)

(* C5: new(x) panics exactly when try_new(x) is Err: it panics for every   *)
(* negative, NaN or infinite x, and for a valid x it returns an instance   *)
(* equal to the one try_new(x) returns.                                    *)
C5_NewPanicsIffInvalid ==
  last.op = "new" =>
    /\ (last.out.tag = "Panic") <=> (try_new(last.arg).tag = "Err")
    /\ IsRejected(last.arg) => last.out.tag = "Panic"
    /\ IsNonNegFinite(last.arg) =>
         /\ last.out.tag = "Ret"
         /\ try_new(last.arg).tag = "Ok"
         /\ eq(last.out.inst, try_new(last.arg).inst)

C5_Witness ==
  /\ last.op = "new"
  /\ IsNegative(last.arg)
  /\ last.out.tag = "Panic"

(* C6, as claimed: the message of the panic of new(x) equals the Display   *)
(* text of NonNegativeError::InvalidValue.                                 *)
C6_PanicMessageIsDisplay ==
  (last.op = "new" /\ last.out.tag = "Panic") =>
    last.out.msg = ErrorDisplay(InvalidValue)

(* C6, amended: the message of the panic of new(x) is the same for every   *)
(* invalid x: the Display text of InvalidValue followed by a colon, a      *)
(* space and the Debug name of the error.                                  *)
C6_PanicMessageFixed ==
  (last.op = "new" /\ last.out.tag = "Panic") =>
    last.out.msg = "Value must be non-negative and finite: InvalidValue"

C6_Witness ==
  /\ last.op = "new"
  /\ last.arg.cls = "nan"
  /\ last.out.tag = "Panic"
  /\ last.out.msg # ErrorDisplay(InvalidValue)

C8_ZeroAndDefault ==
  /\ last.op = "zero" =>
       /\ last.out.tag = "Ret"
       /\ IsZero(get(last.out.inst))
       /\ get(last.out.inst).ty = last.ty
  /\ last.op = "default" =>
       /\ last.out.tag = "Ret"
       /\ eq(last.out.inst, zero(last.ty))
  /\ \A t \in FloatTypes : IsZero(get(zero(t))) /\ eq(default(t), zero(t))

C8_Witness ==
  /\ last.op = "default"
  /\ last.ty = "f32"
  /\ Len(heap) > 0
  /\ heap[Len(heap)] = last.out.inst

(* C9: for instances a, b of one representation, a < b iff get(a) < get(b), *)
(* a == b iff get(a) == get(b), exactly one of a < b, a == b, a > b holds  *)
(* and partial_cmp is never None.                                          *)
C9_OrderingTotal ==
  /\ \A i \in Slots, j \in Slots :
       heap[i].val.ty = heap[j].val.ty =>
         LET a == heap[i]
             b == heap[j]
         IN  /\ lt(a, b) <=> Key(get(a)) < Key(get(b))
             /\ eq(a, b) <=> Key(get(a)) = Key(get(b))
             /\ partial_cmp(a, b) # "None"
             /\ Cardinality({r \in {"lt", "eq", "gt"} :
                   \/ r = "lt" /\ lt(a, b)
                   \/ r = "eq" /\ eq(a, b)
                   \/ r = "gt" /\ gt(a, b)}) = 1
  /\ last.op = "partial_cmp" => last.out.val # "None"

C9_Witness ==
  /\ last.op = "partial_cmp"
  /\ last.out.val = "Less"
  /\ lt(heap[last.self], heap[last.other])

(* C10: for every instance e, try_new(get(e)) is Ok with an instance equal *)
(* to e.                                                                   *)
C10_Idempotent ==
  /\ \A i \in Slots :
       /\ try_new(get(heap[i])).tag = "Ok"
       /\ eq(try_new(get(heap[i])).inst, heap[i])
  /\ ReturnsInstance(last.out) =>
       /\ try_new(get(last.out.inst)).tag = "Ok"
       /\ eq(try_new(get(last.out.inst)).inst, last.out.inst)

C10_Witness ==
  /\ Len(heap) = MaxInst
  /\ \E i \in Slots : IsZero(heap[i].val) /\ heap[i].val.neg
  /\ \E i \in Slots : IsZero(heap[i].val) /\ ~heap[i].val.neg

====
